---- MODULE Spec2Model ----
(***************************************************************************)
(* Model of the tide pipeline of the repository.                           *)
(*                                                                         *)
(* Table Extractor (week02/parse_hko_tables.py): a script that takes the   *)
(* saved page (or fetches it), walks every table and every row of it,      *)
(* collects one 10-field wide row per usable table row and writes the      *)
(* wide CSV.  The two scripts are run one at a time: Spec runs the         *)
(* reshaper, SpecExtract the extractor.                                    *)
(*                                                                         *)
(* Series Reshaper (week02/reshape_and_plot.py): a script that reads the   *)
(* wide CSV, walks every row and every (time, height) slot, collects one   *)
(* Reading per usable slot, sorts the Readings by datetime and writes the  *)
(* long CSV.  An uncaught Python exception ends the script (pc "aborted"). *)
(*                                                                         *)
(* Chatbot (week04/simple_chatbot.py): the response table, get_response    *)
(* (SpecReply) and the message history of a session (SpecChat).            *)
(* SpecNormalize calls normalize_text on its own; SpecTwice runs a stage   *)
(* of the pipeline twice on the same input.                                *)
(*                                                                         *)
(* Texts are sequences of one-character strings, so that strip, zfill,     *)
(* slicing, int() and float() are computed as Python computes them.        *)
(***************************************************************************)
EXTENDS Integers, Sequences, FiniteSets, TLC

VARIABLES
    csv_in,     \* the wide CSV file: [exists, rows], cells as written text
    csv_out,    \* the long CSV file: [exists, rows]
    df,         \* the DataFrame read from csv_in (cells are texts or NaN)
    pc,         \* position of the script
    k,          \* number of rows of df the outer loop has taken
    i,          \* slot index of the inner loop (1..NSlots)
    month,      \* int(r['month']) of the current row
    day,        \* int(r['day']) of the current row
    rows,       \* the list `rows` of Readings, in append order
    long,       \* the sorted frame `long`
    err,        \* the exception that ended the script, "" if none
    sorted_as,  \* the frame sort_values was last given and what it gave
    local_html, \* the saved page LOCAL_HTML: [exists, doc]
    url_page,   \* what fetching URL gives: [ok, doc]
    out_csv,    \* the wide CSV file OUT_CSV: [exists, header, rows]
    html_text,  \* the page main() got from get_html_text()
    tables,     \* the list tree.xpath('//table')
    trs,        \* the list table.xpath('.//tr') of the current table
    ti,         \* number of tables the outer loop has taken
    tri,        \* number of rows of trs the inner loop has taken
    rows_out,   \* the list `rows_out` of parse_tables, `rows` of main()
    stdout,     \* the lines printed so far
    xpc,        \* position of the extractor
    xerr,       \* the exception that ended the extractor, "" if none
    nt_s,       \* the argument s of a call of normalize_text
    nt_out,     \* what the last call of normalize_text returned
    nt_prev,    \* what the call before the last returned
    nt_pc,      \* number of calls made: "call", "returned", "again"
    user_input, \* the argument of a call of get_response
    reply,      \* what get_response returned
    gpc,        \* "call" before, "returned" after the call of get_response
    messages,   \* st.session_state.messages of the chatbot
    response,   \* the reply being typed out by the running script
    cpc,        \* the chatbot script: "idle" (run over) or "typing"
    run,        \* 1 in the first run of a stage, 2 in its second run
    first       \* what the first run of the stage left: [file, rows, err]

\* the state of the reshaper, of the extractor, of the calls of
\* normalize_text and get_response, and of the chatbot
rvars == <<csv_in, csv_out, df, pc, k, i, month, day, rows, long, err, sorted_as>>
xvars ==
    <<local_html, url_page, out_csv, html_text, tables, trs, ti, tri, rows_out,
      stdout, xpc, xerr>>
nvars == <<nt_s, nt_out, nt_prev, nt_pc>>
gvars == <<user_input, reply, gpc>>
cvars == <<messages, response, cpc>>
tvars == <<run, first>>
vars == <<rvars, xvars, nvars, gvars, cvars, tvars>>

\* what each machine leaves alone
others_r == <<xvars, nvars, gvars, cvars, tvars>>
others_x == <<rvars, nvars, gvars, cvars, tvars>>
others_n == <<rvars, xvars, gvars, cvars, tvars>>
others_g == <<rvars, xvars, nvars, cvars, tvars>>
others_c == <<rvars, xvars, nvars, gvars, tvars>>

(***************************************************************************)
(* Bounds of the model and constants of the program.                       *)
(***************************************************************************)
MaxRows == 2        \* longest roster input (number of wide rows)
NSlots == 4         \* range(1,5): the slots t1/h1 .. t4/h4
YEAR == 2023        \* the fixed calendar year of pd.Timestamp
ZFillWidth == 4     \* str(t).zfill(4)
HourChars == 2      \* t_str[:2] / t_str[2:]

(***************************************************************************)
(* Texts.                                                                  *)
(***************************************************************************)
Digits == {"0", "1", "2", "3", "4", "5", "6", "7", "8", "9"}
\* U+00A0, the no-break space of the page
NBSP == "nbsp"
\* the characters str.strip() and str.split() take for whitespace
Space == {" ", "\n", NBSP}
Signs == {"+", "-"}

\* the float nan pandas stores for a missing cell; it is no text
NaN == <<"NaN">>

DigitVal(c) ==
    CASE c = "0" -> 0 [] c = "1" -> 1 [] c = "2" -> 2 [] c = "3" -> 3
      [] c = "4" -> 4 [] c = "5" -> 5 [] c = "6" -> 6 [] c = "7" -> 7
      [] c = "8" -> 8 [] c = "9" -> 9

RECURSIVE LStrip(_)
LStrip(s) == IF s # <<>> /\ s[1] \in Space THEN LStrip(Tail(s)) ELSE s

RECURSIVE RStrip(_)
RStrip(s) ==
    IF s # <<>> /\ s[Len(s)] \in Space THEN RStrip(SubSeq(s, 1, Len(s) - 1)) ELSE s

\* str.strip()
Strip(s) == RStrip(LStrip(s))

RECURSIVE Zeros(_)
Zeros(n) == IF n <= 0 THEN <<>> ELSE <<"0">> \o Zeros(n - 1)

\* faulty variant: the time text is used as written, without padding
ZFillNone(s, width) == s

\* str.zfill(width): pad on the left with zeros, after a leading sign
ZFill(s, width) ==
    IF Len(s) >= width THEN s
    ELSE IF s # <<>> /\ s[1] \in Signs
         THEN <<s[1]>> \o Zeros(width - Len(s)) \o Tail(s)
         ELSE Zeros(width - Len(s)) \o s

IsDigits(s) == s # <<>> /\ \A j \in 1..Len(s) : s[j] \in Digits

RECURSIVE DigitsVal(_)
DigitsVal(s) ==
    IF s = <<>> THEN 0
    ELSE DigitsVal(SubSeq(s, 1, Len(s) - 1)) * 10 + DigitVal(s[Len(s)])

\* int(text): surrounding whitespace, an optional sign, decimal digits.
\* ok = FALSE stands for ValueError.
PyInt(s) ==
    LET u == Strip(s)
        signed == u # <<>> /\ u[1] \in Signs
        body == IF signed THEN Tail(u) ELSE u
        sgn == IF signed /\ u[1] = "-" THEN -1 ELSE 1
    IN  IF IsDigits(body)
        THEN [ok |-> TRUE, val |-> sgn * DigitsVal(body)]
        ELSE [ok |-> FALSE, val |-> 0]

\* int(cell) of a DataFrame cell: int(float('nan')) raises ValueError too
PyIntCell(c) == IF c = NaN THEN [ok |-> FALSE, val |-> 0] ELSE PyInt(c)

\* position of the first "." of s, 0 if none
RECURSIVE DotAt(_, _)
DotAt(s, j) ==
    IF j > Len(s) THEN 0 ELSE IF s[j] = "." THEN j ELSE DotAt(s, j + 1)

RECURSIVE Pow10(_)
Pow10(n) == IF n <= 0 THEN 1 ELSE 10 * Pow10(n - 1)

RECURSIVE DropZeros(_)
DropZeros(s) ==
    IF s # <<>> /\ s[Len(s)] = "0" THEN DropZeros(SubSeq(s, 1, Len(s) - 1)) ELSE s

\* the number mant / 10^exp
Decimal(m, e) == [mant |-> m, exp |-> e]

\* float(text) for decimal texts: whitespace, optional sign, digits with at
\* most one "." and at least one digit.  The value is kept exactly, as the
\* decimal mant / 10^exp without trailing zeros ("1.20" and "1.2" are the
\* same number).  ok = FALSE stands for ValueError.
PyFloat(s) ==
    LET u == Strip(s)
        signed == u # <<>> /\ u[1] \in Signs
        body == IF signed THEN Tail(u) ELSE u
        sgn == IF signed /\ u[1] = "-" THEN -1 ELSE 1
        d == DotAt(body, 1)
        ip == IF d = 0 THEN body ELSE SubSeq(body, 1, d - 1)
        raw == IF d = 0 THEN <<>> ELSE SubSeq(body, d + 1, Len(body))
        fp == DropZeros(raw)
        wellFormed ==
            /\ ip \o raw # <<>>
            /\ \A j \in 1..Len(ip) : ip[j] \in Digits
            /\ \A j \in 1..Len(raw) : raw[j] \in Digits
    IN  IF wellFormed
        THEN [ok |-> TRUE,
              val |-> Decimal(sgn * (DigitsVal(ip) * Pow10(Len(fp)) + DigitsVal(fp)),
                              Len(fp))]
        ELSE [ok |-> FALSE, val |-> Decimal(0, 0)]

(***************************************************************************)
(* pandas                                                                  *)
(***************************************************************************)
\* pd.isna(cell)
IsNa(c) == c = NaN

\* faulty variant: only the missing cell counts as blank
IsBlankNaOnly(c) == IsNa(c)

\* the blank tests of the inner loop: pd.isna(x) or str(x).strip() == ''
IsBlank(c) == IsNa(c) \/ Strip(c) = <<>>

\* read_csv(dtype=str) of one cell: the empty field becomes NaN, any other
\* text (leading zeros, blanks) is kept as written
ReadCell(c) == IF c = <<>> THEN NaN ELSE c

ReadRow(r) ==
    [month |-> ReadCell(r.month), day |-> ReadCell(r.day),
     t |-> [j \in 1..NSlots |-> ReadCell(r.t[j])],
     h |-> [j \in 1..NSlots |-> ReadCell(r.h[j])]]

DaysInMonth(m) ==
    IF m = 2 THEN 28 ELSE IF m \in {4, 6, 9, 11} THEN 30 ELSE 31

\* pd.Timestamp(year=2023, month, day, hour, minute) accepts exactly the
\* fields of a real instant; anything else raises ValueError
TimestampOk(mo, d, hh, mi) ==
    /\ mo \in 1..12
    /\ d \in 1..DaysInMonth(mo)
    /\ hh \in 0..23
    /\ mi \in 0..59

Timestamp(mo, d, hh, mi) ==
    [year |-> YEAR, month |-> mo, day |-> d, hour |-> hh, minute |-> mi]

\* a < b on Timestamps
DtLess(a, b) ==
    LET ka == <<a.year, a.month, a.day, a.hour, a.minute>>
        kb == <<b.year, b.month, b.day, b.hour, b.minute>>
    IN  \E j \in 1..5 : ka[j] < kb[j] /\ \A l \in 1..(j - 1) : ka[l] = kb[l]

DtLeq(a, b) == ~DtLess(b, a)


(***************************************************************************)
(* The body of the loops of reshape_and_plot.py                            *)
(***************************************************************************)
\* faulty variant: the two slices are taken the wrong way round
ParseTimeSwapped(t_str) ==
    LET hh == PyInt(SubSeq(t_str, HourChars + 1, Len(t_str)))
        mi == PyInt(SubSeq(t_str, 1, HourChars))
    IN  [ok |-> hh.ok /\ mi.ok, hour |-> hh.val, minute |-> mi.val]

\* hour = int(t_str[:2]); minute = int(t_str[2:]) inside the try
ParseTime(t_str) ==
    LET hh == PyInt(SubSeq(t_str, 1, HourChars))
        mi == PyInt(SubSeq(t_str, HourChars + 1, Len(t_str)))
    IN  [ok |-> hh.ok /\ mi.ok, hour |-> hh.val, minute |-> mi.val]

\* h_val = float(str(h).strip()) inside the try
ParseHeight(h) == PyFloat(Strip(h))

Skipped == [kind |-> "skip"]
Raised(e) == [kind |-> "raise", err |-> e]
Appended(rd) == [kind |-> "append", reading |-> rd]

\* faulty variant: the constructor takes any fields
MakeTimestampAny(mo, d, hh, mi) == [ok |-> TRUE, dt |-> Timestamp(mo, d, hh, mi)]

\* what the constructor of the datetime does with the parsed fields
MakeTimestamp(mo, d, hh, mi) ==
    IF TimestampOk(mo, d, hh, mi)
    THEN [ok |-> TRUE, dt |-> Timestamp(mo, d, hh, mi)]
    ELSE [ok |-> FALSE, dt |-> Timestamp(0, 0, 0, 0)]

\* the time part of one pass of the inner loop, after both blank tests:
\* zfill, the guarded int() calls, then the unguarded pd.Timestamp
SlotTime(t, mo, d) ==
    LET tm == ParseTime(ZFill(t, ZFillWidth))
    IN  IF ~tm.ok THEN Skipped
        ELSE LET ts == MakeTimestamp(mo, d, tm.hour, tm.minute)
             IN  IF ~ts.ok THEN Raised("ValueError") ELSE Appended(ts.dt)

\* the height part: the guarded float() and the append
SlotHeight(h, dt, j, mo, d) ==
    LET hv == ParseHeight(h)
    IN  IF ~hv.ok THEN Skipped
        ELSE Appended([datetime |-> dt, tide_m |-> hv.val, pair |-> j,
                       month |-> mo, day |-> d])

\* one pass of `for i in range(1,5)` on row r with month mo and day d
SlotBody(r, mo, d, j) ==
    LET t == r.t[j]
        h == r.h[j]
    IN  IF IsBlank(t) THEN Skipped
        ELSE IF IsBlank(h) THEN Skipped
        ELSE LET tr == SlotTime(t, mo, d)
             IN  IF tr.kind # "append" THEN tr
                 ELSE SlotHeight(h, tr.reading, j, mo, d)

\* month = int(r['month']); day = int(r['day']), both unguarded
RowHead(r) ==
    LET m == PyIntCell(r.month)
        d == PyIntCell(r.day)
    IN  [ok |-> m.ok /\ d.ok, month |-> m.val, day |-> d.val]

(***************************************************************************)
(* long.sort_values('datetime'): the default kind is 'quicksort', which    *)
(* orders the keys and promises nothing about equal keys.  The model takes *)
(* every order of the rows that is ascending in datetime.                  *)
(***************************************************************************)
Remove(s, j) == SubSeq(s, 1, j - 1) \o SubSeq(s, j + 1, Len(s))

MinIdx(s) ==
    {j \in 1..Len(s) : \A l \in 1..Len(s) : DtLeq(s[j].datetime, s[l].datetime)}

RECURSIVE SortedOrders(_)
SortedOrders(s) ==
    IF s = <<>> THEN {<<>>}
    ELSE UNION {{<<s[j]>> \o p : p \in SortedOrders(Remove(s, j))} : j \in MinIdx(s)}

\* faulty variant: the frame is written in the order of collection
Unsorted(s) == {s}

SortValues(s) == SortedOrders(s)

(***************************************************************************)
(* Inputs: the content of the wide CSV.  A cell is the text written in the *)
(* file, <<>> for an empty field.                                          *)
(***************************************************************************)
Empty == <<>>
T0531 == <<"0", "5", "3", "1">>
T531 == <<"5", "3", "1">>
T1145 == <<"1", "1", "4", "5">>
T1758 == <<"1", "7", "5", "8">>
T2310 == <<"2", "3", "1", "0">>
T0601 == <<"0", "6", "0", "1">>
T1830 == <<"1", "8", "3", "0">>
T9999 == <<"9", "9", "9", "9">>
T2460 == <<"2", "4", "6", "0">>
TABCD == <<"a", "b", ":", "c", "d">>
T05C31 == <<"0", "5", ":", "3", "1">>
H12 == <<"1", ".", "2">>
H04 == <<"0", ".", "4">>
H15 == <<"1", ".", "5">>
H03 == <<"0", ".", "3">>
H13 == <<"1", ".", "3">>
H16 == <<"1", ".", "6">>
H10 == <<"1", ".", "0">>
HABC == <<"a", "b", "c">>
D03 == <<"0", "3">>
D15 == <<"1", "5">>
D16 == <<"1", "6">>
D02 == <<"0", "2">>
D30 == <<"3", "0">>
DAB == <<"a", "b">>
TimeTexts ==
    {Empty, <<" ">>, T0531, T531, T9999, T2460, TABCD, T05C31}
HeightTexts ==
    {Empty, <<" ">>, H12, H04, HABC}
DateTexts ==
    {<<D03, D15>>, <<D02, D30>>, <<Empty, Empty>>, <<DAB, D15>>}

WideRow(mo, d, ts, hs) == [month |-> mo, day |-> d, t |-> ts, h |-> hs]

\* the pairs the other slots of a one-row input hold
PlainPairs == {<<Empty, Empty>>, <<T1145, H04>>, <<T9999, H10>>}

\* one-row inputs: any date text, any (time, height) combination in one
\* slot, plain pairs in the others
RichRows ==
    {WideRow(dt[1], dt[2],
             [j \in 1..NSlots |-> IF j = f THEN t ELSE base[j][1]],
             [j \in 1..NSlots |-> IF j = f THEN h ELSE base[j][2]]) :
        dt \in DateTexts, f \in 1..NSlots, t \in TimeTexts, h \in HeightTexts,
        base \in [1..NSlots -> PlainPairs]}

\* the rows of many-row inputs
RosterRows ==
    {WideRow(D03, D15, <<T0531, T1145, T1758, T2310>>, <<H12, H04, H15, H03>>),
     WideRow(D03, D16, <<T0601, Empty, T1830, Empty>>, <<H13, Empty, H16, Empty>>),
     WideRow(D03, D15, <<T2310, T531, T0531, T1145>>, <<H03, H04, H12, H04>>),
     WideRow(D03, D16, <<Empty, Empty, Empty, Empty>>, <<Empty, Empty, Empty, Empty>>),
     WideRow(Empty, Empty, <<Empty, Empty, Empty, Empty>>, <<Empty, Empty, Empty, Empty>>),
     WideRow(D02, D30, <<T0531, Empty, Empty, Empty>>, <<H12, Empty, Empty, Empty>>),
     WideRow(D03, D16, <<T0601, T9999, T1830, Empty>>, <<H13, H10, H16, Empty>>),
     WideRow(D03, D15, <<TABCD, T0531, T1145, Empty>>, <<H10, HABC, H04, Empty>>)}

RECURSIVE SeqsUpTo(_, _)
SeqsUpTo(S, n) ==
    IF n = 0 THEN {<<>>}
    ELSE LET shorter == SeqsUpTo(S, n - 1)
         IN  shorter \cup {Append(q, x) : q \in shorter, x \in S}

WideInputs == {<<r>> : r \in RichRows} \cup SeqsUpTo(RosterRows, MaxRows)

NoFile == [exists |-> FALSE, rows |-> <<>>]
\* a long CSV left by an earlier run
OldFile ==
    [exists |-> TRUE,
     rows |-> <<[datetime |-> Timestamp(1, 1, 0, 0), tide_m |-> Decimal(0, 0), pair |-> 1,
                 month |-> 1, day |-> 1]>>]

(***************************************************************************)
(* The script.                                                             *)
(***************************************************************************)
MissingInput == [exists |-> FALSE, rows |-> <<>>]

\* nothing was sorted yet
NoSort == [given |-> FALSE, frame |-> <<>>, sorted |-> <<>>]

\* the stage is in its first run
NoRun == [file |-> <<>>, rows |-> <<>>, err |-> ""]
FirstRun ==
    /\ run = 1
    /\ first = NoRun

\* normalize_text is not called
NormalizeIdle ==
    /\ nt_s = <<>>
    /\ nt_out = <<>>
    /\ nt_prev = <<>>
    /\ nt_pc = "idle"

\* get_response is not called
ReplyIdle ==
    /\ user_input = <<>>
    /\ reply = ""
    /\ gpc = "idle"

\* the chatbot is not run
ChatIdle ==
    /\ messages = <<>>
    /\ response = ""
    /\ cpc = "off"

\* the extractor is not run
ExtractorIdle ==
    /\ local_html = [exists |-> FALSE, doc |-> <<>>]
    /\ url_page = [ok |-> FALSE, doc |-> <<>>]
    /\ out_csv = [exists |-> FALSE, header |-> <<>>, rows |-> <<>>]
    /\ html_text = <<>>
    /\ tables = <<>>
    /\ trs = <<>>
    /\ ti = 0
    /\ tri = 0
    /\ rows_out = <<>>
    /\ stdout = <<>>
    /\ xpc = "idle"
    /\ xerr = ""

Init ==
    /\ csv_in \in {MissingInput} \cup {[exists |-> TRUE, rows |-> w] : w \in WideInputs}
    /\ csv_out \in {NoFile, OldFile}
    /\ df = <<>>
    /\ pc = "start"
    /\ k = 0
    /\ i = 1
    /\ month = 0
    /\ day = 0
    /\ rows = <<>>
    /\ long = <<>>
    /\ err = ""
    /\ sorted_as = NoSort
    /\ ExtractorIdle
    /\ FirstRun
    /\ NormalizeIdle
    /\ ReplyIdle
    /\ ChatIdle

\* an uncaught exception ends the script where it stands
Abort(e) ==
    /\ pc' = "aborted"
    /\ err' = e

\* faulty variant: a missing input is read as a frame without rows
ReadCsvMissingAsEmpty ==
    /\ pc = "start"
    /\ df' = [j \in 1..Len(csv_in.rows) |-> ReadRow(csv_in.rows[j])]
    /\ pc' = "row"
    /\ UNCHANGED <<csv_in, csv_out, k, i, month, day, rows, long, err, sorted_as>>
    /\ UNCHANGED others_r

\* df = pd.read_csv(CSV_IN, dtype=str)
ReadCsv ==
    /\ pc = "start"
    /\ IF csv_in.exists
       THEN /\ df' = [j \in 1..Len(csv_in.rows) |-> ReadRow(csv_in.rows[j])]
            /\ pc' = "row"
            /\ err' = err
       ELSE /\ Abort("FileNotFoundError")
            /\ df' = df
    /\ UNCHANGED <<csv_in, csv_out, k, i, month, day, rows, long, sorted_as>>
    /\ UNCHANGED others_r

\* for _, r in df.iterrows(): month = int(r['month']); day = int(r['day'])
NextRow ==
    /\ pc = "row"
    /\ IF k = Len(df)
       THEN /\ pc' = "sort"
            /\ UNCHANGED <<k, i, month, day, err>>
       ELSE LET hd == RowHead(df[k + 1])
            IN  /\ k' = k + 1
                /\ IF hd.ok
                   THEN /\ month' = hd.month
                        /\ day' = hd.day
                        /\ i' = 1
                        /\ pc' = "slot"
                        /\ err' = err
                   ELSE /\ Abort("ValueError")
                        /\ UNCHANGED <<i, month, day>>
    /\ UNCHANGED <<csv_in, csv_out, df, rows, long, sorted_as>>
    /\ UNCHANGED others_r

\* faulty variant: every Reading is written to the file as it is collected
SlotWritesThrough ==
    /\ pc = "slot"
    /\ LET out == SlotBody(df[k], month, day, i)
       IN  IF out.kind = "raise"
           THEN /\ Abort(out.err)
                /\ UNCHANGED <<i, rows, csv_out>>
           ELSE /\ rows' = IF out.kind = "append" THEN Append(rows, out.reading) ELSE rows
                /\ csv_out' = IF out.kind = "append"
                              THEN [exists |-> TRUE, rows |-> Append(rows, out.reading)]
                              ELSE csv_out
                /\ IF i = NSlots
                   THEN pc' = "row" /\ i' = i
                   ELSE pc' = "slot" /\ i' = i + 1
                /\ err' = err
    /\ UNCHANGED <<csv_in, df, k, month, day, long, sorted_as>>
    /\ UNCHANGED others_r

\* one pass of for i in range(1,5) on the current row
Slot ==
    /\ pc = "slot"
    /\ LET out == SlotBody(df[k], month, day, i)
       IN  IF out.kind = "raise"
           THEN /\ Abort(out.err)
                /\ UNCHANGED <<i, rows>>
           ELSE /\ rows' = IF out.kind = "append" THEN Append(rows, out.reading) ELSE rows
                /\ IF i = NSlots
                   THEN pc' = "row" /\ i' = i
                   ELSE pc' = "slot" /\ i' = i + 1
                /\ err' = err
    /\ UNCHANGED <<csv_in, csv_out, df, k, month, day, long, sorted_as>>
    /\ UNCHANGED others_r

\* faulty variant: the sort breaks ties by chance, afresh at every call
SameOrNot(frame, p) == TRUE

\* the sort is an algorithm without random choices: which of the ascending
\* orders it gives is not specified, but the same frame is put in the same
\* order every time
SameAsBefore(frame, p) ==
    (sorted_as.given /\ sorted_as.frame = frame) => p = sorted_as.sorted

\* long = pd.DataFrame(rows); long = long.sort_values('datetime')...;
\* long.to_csv(CSV_OUT).  A frame built from no rows has no 'datetime'
\* column and sort_values raises KeyError before anything is written.
Finish ==
    /\ pc = "sort"
    /\ IF rows = <<>>
       THEN /\ Abort("KeyError")
            /\ UNCHANGED <<long, csv_out, sorted_as>>
       ELSE /\ \E p \in SortValues(rows) :
                  /\ SameAsBefore(rows, p)
                  /\ long' = p
                  /\ csv_out' = [exists |-> TRUE, rows |-> p]
                  /\ sorted_as' = [given |-> TRUE, frame |-> rows, sorted |-> p]
            /\ pc' = "done"
            /\ err' = err
    /\ UNCHANGED <<csv_in, df, k, i, month, day, rows>>
    /\ UNCHANGED others_r

Next == ReadCsv \/ NextRow \/ Slot \/ Finish

Spec == Init /\ [][Next]_vars

(***************************************************************************)
(* Vocabulary of the claims.                                               *)
(***************************************************************************)
Terminal == pc \in {"done", "aborted"}

\* the Readings this run wrote
Written == IF pc = "done" THEN csv_out.rows ELSE <<>>

\* missing, empty or whitespace-only cell of the frame
BlankCell(c) == c = NaN \/ \A j \in 1..Len(c) : c[j] = " "

\* the month and day texts are integers that name a day of 2023
DateOk(r) ==
    /\ ~BlankCell(r.month) /\ ~BlankCell(r.day)
    /\ PyInt(r.month).ok /\ PyInt(r.day).ok
    /\ PyInt(r.month).val \in 1..12
    /\ PyInt(r.day).val \in 1..DaysInMonth(PyInt(r.month).val)

\* the zero-padded time text splits into two integers
TimeNumeric(c) ==
    LET p == ZFill(c, ZFillWidth)
    IN  PyInt(SubSeq(p, 1, HourChars)).ok /\ PyInt(SubSeq(p, HourChars + 1, Len(p))).ok

HourOf(c) == PyInt(SubSeq(ZFill(c, ZFillWidth), 1, HourChars)).val
MinuteOf(c) ==
    PyInt(SubSeq(ZFill(c, ZFillWidth), HourChars + 1, Len(ZFill(c, ZFillWidth)))).val

TimeInRange(c) == HourOf(c) \in 0..23 /\ MinuteOf(c) \in 0..59

TimeValid(c) == ~BlankCell(c) /\ TimeNumeric(c) /\ TimeInRange(c)
TimeOutOfRange(c) == ~BlankCell(c) /\ TimeNumeric(c) /\ ~TimeInRange(c)
TimeNonNumeric(c) == ~BlankCell(c) /\ ~TimeNumeric(c)
HeightValid(c) == ~BlankCell(c) /\ PyFloat(c).ok
HeightMalformed(c) == ~BlankCell(c) /\ ~PyFloat(c).ok

SlotBlank(r, j) == BlankCell(r.t[j]) \/ BlankCell(r.h[j])
SlotValid(r, j) == TimeValid(r.t[j]) /\ HeightValid(r.h[j])
ValidSlots(r) == {j \in 1..NSlots : SlotValid(r, j)}

\* the Reading the specification asks of a valid slot of a row with a date
Expected(r, j) ==
    [datetime |-> [year |-> 2023, month |-> PyInt(r.month).val, day |-> PyInt(r.day).val,
                   hour |-> HourOf(r.t[j]), minute |-> MinuteOf(r.t[j])],
     tide_m |-> PyFloat(r.h[j]).val, pair |-> j,
     month |-> PyInt(r.month).val, day |-> PyInt(r.day).val]

\* the Readings asked of the slots js (a set of slot indexes) in slot order
RECURSIVE ExpectedOf(_, _, _)
ExpectedOf(r, js, j) ==
    IF j > NSlots THEN <<>>
    ELSE (IF j \in js THEN <<Expected(r, j)>> ELSE <<>>) \o ExpectedOf(r, js, j + 1)

RECURSIVE ValidBefore(_)
ValidBefore(n) ==
    IF n <= 1 THEN 0 ELSE ValidBefore(n - 1) + Cardinality(ValidSlots(df[n - 1]))

\* row n has been walked to its end: what it added to `rows`
RowWalked(n) == pc = "row" /\ k = n /\ n >= 1
RowYield(n) == SubSeq(rows, ValidBefore(n) + 1, Len(rows))
\* the script died while it was on row n (in the loops, not at the sort)
DiedOn(n) == pc = "aborted" /\ err = "ValueError" /\ k = n /\ n >= 1

Range(q) == {q[p] : p \in 1..Len(q)}

AllSlots == {<<n, j>> : n \in 1..Len(df), j \in 1..NSlots}

(***************************************************************************)
(* C1.  A slot whose time text is numeric but names an hour outside 0-23   *)
(* or a minute outside 0-59 is skipped alone: the run does not abort and   *)
(* every valid slot, of that row and of every other row, has its Reading   *)
(* in the written output.  Stated for inputs whose rows all carry a real   *)
(* date and hold at least one valid slot.                                  *)
(***************************************************************************)
C1_OutOfRangeSlotSkipped ==
    ( /\ Terminal
      /\ csv_in.exists
      /\ \A n \in 1..Len(df) : DateOk(df[n])
      /\ \E s \in AllSlots : TimeOutOfRange(df[s[1]].t[s[2]])
      /\ \E s \in AllSlots : SlotValid(df[s[1]], s[2]) )
    => /\ pc = "done"
       /\ \A s \in AllSlots :
              SlotValid(df[s[1]], s[2]) => Expected(df[s[1]], s[2]) \in Range(Written)

(***************************************************************************)
(* C2.  A row whose month or day text is blank, non-numeric or no day of   *)
(* 2023 is recovered locally: the run goes on and writes the Readings of   *)
(* the well-formed rows.  Stated for inputs without out-of-range times.    *)
(***************************************************************************)
C2_BadDateRowRecovered ==
    ( /\ Terminal
      /\ csv_in.exists
      /\ \A s \in AllSlots : ~TimeOutOfRange(df[s[1]].t[s[2]])
      /\ \E n \in 1..Len(df) : ~DateOk(df[n])
      /\ \E n \in 1..Len(df) : DateOk(df[n]) /\ ValidSlots(df[n]) # {} )
    => /\ pc = "done"
       /\ \A s \in AllSlots :
              (DateOk(df[s[1]]) /\ SlotValid(df[s[1]], s[2]))
                  => Expected(df[s[1]], s[2]) \in Range(Written)

(***************************************************************************)
(* C3.  In a row with a date, a slot whose time text is non-blank and      *)
(* non-numeric produces no Reading and the valid slots of the same row     *)
(* each still produce exactly one: when the script leaves the row, at its  *)
(* end or by dying on it, the row has added exactly the Readings of its    *)
(* valid slots.                                                            *)
(***************************************************************************)
C3_NonNumericSlotSkipped ==
    \A n \in 1..Len(df) :
        ( /\ DateOk(df[n])
          /\ \E j \in 1..NSlots : TimeNonNumeric(df[n].t[j]) /\ ~BlankCell(df[n].h[j])
          /\ RowWalked(n) \/ DiedOn(n) )
        => RowYield(n) = ExpectedOf(df[n], ValidSlots(df[n]), 1)

(***************************************************************************)
(* C4.  A pass of the inner loop over a slot with a valid time text and a  *)
(* non-blank height text that is no floating-point number adds no Reading, *)
(* does not abort the run and goes on to the next slot of the row.         *)
(***************************************************************************)
C4_MalformedHeightSkipped ==
    [][ (pc = "slot" /\ TimeValid(df[k].t[i]) /\ HeightMalformed(df[k].h[i]))
        => /\ rows' = rows
           /\ pc' # "aborted"
           /\ i < NSlots => (pc' = "slot" /\ i' = i + 1) ]_vars

(***************************************************************************)
(* C5.  A pass of the inner loop over a slot whose time text or height     *)
(* text is missing, empty or whitespace-only adds no Reading and raises no *)
(* error, whatever the other field of the slot holds.                      *)
(***************************************************************************)
C5_BlankSlotSkipped ==
    [][ (pc = "slot" /\ SlotBlank(df[k], i))
        => (rows' = rows /\ pc' # "aborted" /\ err' = err) ]_vars

\* a blank height next to an out-of-range time, and a blank time next to a
\* malformed height, have been passed over without an error
C5_Witness ==
    /\ pc = "slot"
    /\ i > 1
    /\ err = ""
    /\ \/ TimeOutOfRange(df[k].t[i - 1]) /\ BlankCell(df[k].h[i - 1])
       \/ BlankCell(df[k].t[i - 1]) /\ HeightMalformed(df[k].h[i - 1])

(***************************************************************************)
(* C6.  The written Reading sequence is non-decreasing in datetime.        *)
(***************************************************************************)
C6_OutputSorted ==
    pc = "done" =>
        \A p \in 1..(Len(csv_out.rows) - 1) :
            DtLeq(csv_out.rows[p].datetime, csv_out.rows[p + 1].datetime)

\* an input whose Readings were collected out of order has been written
C6_Witness ==
    /\ pc = "done"
    /\ \E p \in 1..(Len(rows) - 1) : DtLess(rows[p + 1].datetime, rows[p].datetime)
    /\ Len(csv_out.rows) = Len(rows)

(***************************************************************************)
(* C7.  The sort is stable: Readings of equal datetime are written in the  *)
(* order in which the loops collected them (row, then slot).               *)
(***************************************************************************)
RECURSIVE InsertStable(_, _)
InsertStable(q, x) ==
    IF q = <<>> THEN <<x>>
    ELSE IF DtLess(x.datetime, q[Len(q)].datetime)
         THEN Append(InsertStable(SubSeq(q, 1, Len(q) - 1), x), q[Len(q)])
         ELSE Append(q, x)

RECURSIVE StableSort(_)
StableSort(q) ==
    IF q = <<>> THEN <<>>
    ELSE InsertStable(StableSort(SubSeq(q, 1, Len(q) - 1)), q[Len(q)])

C7_SortStable == pc = "done" => csv_out.rows = StableSort(rows)

(***************************************************************************)
(* C8.  A wide row that holds one (T, H) pair, T a valid clock text of 3   *)
(* or 4 digits and H a decimal text, and three blank pairs yields exactly  *)
(* one Reading: its hour is the first two characters of T padded with      *)
(* zeros to 4, its minute the last two, its tide_m the float value of H.   *)
(***************************************************************************)
Pad4(c) == IF Len(c) = 3 THEN <<"0">> \o c ELSE c
ClockHour(c) == DigitsVal(SubSeq(Pad4(c), 1, 2))
ClockMinute(c) == DigitsVal(SubSeq(Pad4(c), 3, 4))

ClockText(c) ==
    /\ Len(c) \in {3, 4}
    /\ \A p \in 1..Len(c) : c[p] \in Digits
    /\ ClockHour(c) \in 0..23
    /\ ClockMinute(c) \in 0..59

DecimalText(c) ==
    /\ c # <<>>
    /\ \A p \in 1..Len(c) : c[p] \in Digits \cup {"."}
    /\ PyFloat(c).ok

SinglePairRow(r, j) ==
    /\ ClockText(r.t[j])
    /\ DecimalText(r.h[j])
    /\ \A j2 \in 1..NSlots \ {j} : BlankCell(r.t[j2]) /\ BlankCell(r.h[j2])

SinglePairYield(n, j) ==
    /\ ~DiedOn(n)
    /\ RowWalked(n) =>
          /\ Len(RowYield(n)) = 1
          /\ RowYield(n)[1].datetime.hour = ClockHour(df[n].t[j])
          /\ RowYield(n)[1].datetime.minute = ClockMinute(df[n].t[j])
          /\ RowYield(n)[1].tide_m = PyFloat(df[n].h[j]).val

\* month in 1..12 and day in 1..31, the ranges the data model gives a row
DateInRange(r) ==
    /\ ~BlankCell(r.month) /\ ~BlankCell(r.day)
    /\ PyInt(r.month).ok /\ PyInt(r.day).ok
    /\ PyInt(r.month).val \in 1..12
    /\ PyInt(r.day).val \in 1..31

\* C8 as claimed: for every such row with a month in 1..12 and a day in 1..31
C8_SinglePairRowAnyDay ==
    \A s \in AllSlots :
        (DateInRange(df[s[1]]) /\ SinglePairRow(df[s[1]], s[2]))
            => SinglePairYield(s[1], s[2])

\* C8 as amended: for every such row whose month and day name a day of 2023
C8_SinglePairRow ==
    \A s \in AllSlots :
        (DateOk(df[s[1]]) /\ SinglePairRow(df[s[1]], s[2])) => SinglePairYield(s[1], s[2])

\* the row 03,15 with the one pair ("531", "1.2") gave the Reading 05:31, 1.2
C8_Witness ==
    /\ RowWalked(1)
    /\ DateOk(df[1])
    /\ \E j \in 1..NSlots :
          /\ SinglePairRow(df[1], j)
          /\ df[1].t[j] = <<"5", "3", "1">>
          /\ df[1].h[j] = <<"1", ".", "2">>
    /\ Len(rows) = 1
    /\ rows[1].datetime.hour = 5
    /\ rows[1].datetime.minute = 31
    /\ rows[1].tide_m = [mant |-> 12, exp |-> 1]

(***************************************************************************)
(* C9.  M >= 1 wide rows, each with a valid month/day and 4 valid pairs,   *)
(* are reshaped into exactly 4*M written Readings.                         *)
(***************************************************************************)
FullRow(r) == DateOk(r) /\ \A j \in 1..4 : SlotValid(r, j)

C9_FullRowsYield4M ==
    ( /\ Terminal
      /\ csv_in.exists
      /\ Len(df) >= 1
      /\ \A n \in 1..Len(df) : FullRow(df[n]) )
    => (pc = "done" /\ Len(csv_out.rows) = 4 * Len(df))

\* two full rows have been written as eight Readings
C9_Witness ==
    /\ pc = "done"
    /\ Len(df) = 2
    /\ \A n \in 1..Len(df) : FullRow(df[n])
    /\ Len(csv_out.rows) = 8

(***************************************************************************)
(* C10.  Every Reading carries the index of its slot and the integer month *)
(* and day of its row, and skipped slots do not renumber later ones: when  *)
(* the script leaves a dated row, at its end or by dying on it, the row    *)
(* has added exactly the Readings of its valid slots, in slot order, each  *)
(* with its own slot index; a row whose valid pairs are in slots 1 and 3   *)
(* adds two Readings, pair 1 and pair 3.                                   *)
(***************************************************************************)
C10_PairIsSlotIndex ==
    \A n \in 1..Len(df) :
        (DateOk(df[n]) /\ ValidSlots(df[n]) = {1, 3} /\ (RowWalked(n) \/ DiedOn(n)))
        => /\ Len(RowYield(n)) = 2
           /\ RowYield(n)[1] = Expected(df[n], 1)
           /\ RowYield(n)[2] = Expected(df[n], 3)
           /\ RowYield(n)[1].pair = 1
           /\ RowYield(n)[2].pair = 3

(***************************************************************************)
(* C11.  A wide row whose 4 (time, height) pairs are all blank adds no     *)
(* Reading and is dropped silently: the script does not die on it, and     *)
(* when the row is walked `rows` is what it was before the row.            *)
(***************************************************************************)
AllPairsBlank(r) == \A j \in 1..NSlots : BlankCell(r.t[j]) /\ BlankCell(r.h[j])

C11_BlankRowDropped ==
    \A n \in 1..Len(df) :
        AllPairsBlank(df[n])
        => /\ ~DiedOn(n)
           /\ RowWalked(n) => Len(rows) = ValidBefore(n)

(***************************************************************************)
(* C12.  When the loops end with no Reading at all, the script reports     *)
(* that there is nothing to write instead of failing with an error, and    *)
(* the long CSV is neither created nor overwritten.                        *)
(***************************************************************************)
C12_EmptyResultReported ==
    [][ (pc = "sort" /\ rows = <<>>)
        => (pc' # "aborted" /\ err' = "" /\ csv_out' = csv_out) ]_vars

(***************************************************************************)
(* C20.  When the wide CSV is missing the script fails at the read, before *)
(* any Reading is produced, and the long CSV is neither created nor        *)
(* modified.                                                               *)
(***************************************************************************)
C20_MissingInputFails ==
    [][ (pc = "start" /\ ~csv_in.exists)
        => (pc' = "aborted" /\ err' # "" /\ rows' = <<>> /\ csv_out' = csv_out) ]_vars

\* the read of a missing wide CSV has failed next to the long CSV of an
\* earlier run, which is still there
C20_Witness ==
    /\ ~csv_in.exists
    /\ pc = "aborted"
    /\ err = "FileNotFoundError"
    /\ rows = <<>>
    /\ csv_out = OldFile

(***************************************************************************)
(* Table Extractor: the element tree.                                      *)
(*                                                                         *)
(* The page is held as the tree html.fromstring builds: a document is the  *)
(* sequence of its outermost tables, a table the sequence of its rows     *)
(* (tr), a row the sequence of its cells, a cell a td or a th with its own *)
(* text and the tables nested in it.                                       *)
(***************************************************************************)
MaxTrs == 3         \* longest table of the one-table documents (rows)
RowWidth == 10      \* while len(cells) < 10 / cells[:10]
MinCells == 2       \* if len(cells) < 2: continue

Td(text) == [tag |-> "td", text |-> text, inner |-> <<>>]
Th(text) == [tag |-> "th", text |-> text, inner |-> <<>>]
\* a data cell that holds tables after its text
TdNest(text, tbls) == [tag |-> "td", text |-> text, inner |-> tbls]

RECURSIVE Concat(_)
Concat(ss) == IF ss = <<>> THEN <<>> ELSE ss[1] \o Concat(Tail(ss))

\* the tables of a sequence of sibling tables and all tables below them, in
\* document order: tree.xpath('//table')
RECURSIVE TablesIn(_)
TablesIn(ts) ==
    Concat([t \in 1..Len(ts) |->
        <<ts[t]>> \o
        Concat([r \in 1..Len(ts[t]) |->
            Concat([c \in 1..Len(ts[t][r]) |-> TablesIn(ts[t][r][c].inner)])])])

\* every row at or below a table, in document order: table.xpath('.//tr')
RECURSIVE TrsIn(_)
TrsIn(table) ==
    Concat([r \in 1..Len(table) |->
        <<table[r]>> \o
        Concat([c \in 1..Len(table[r]) |->
            Concat([t \in 1..Len(table[r][c].inner) |-> TrsIn(table[r][c].inner[t])])])])

\* every cell at or below a row, in document order
RECURSIVE CellsIn(_)
CellsIn(tr) ==
    Concat([c \in 1..Len(tr) |->
        <<tr[c]>> \o
        Concat([t \in 1..Len(tr[c].inner) |->
            Concat([r \in 1..Len(tr[c].inner[t]) |-> CellsIn(tr[c].inner[t][r])])])])

IsTag(tag, c) == c.tag = tag

\* tr.xpath('.//th') and tr.xpath('.//td')
XPathCells(tr, tag) == SelectSeq(CellsIn(tr), LAMBDA c : IsTag(tag, c))

\* td.text_content(): the text of the cell and of everything below it
RECURSIVE TextContent(_)
TextContent(cell) ==
    cell.text \o
    Concat([t \in 1..Len(cell.inner) |->
        Concat([r \in 1..Len(cell.inner[t]) |->
            Concat([c \in 1..Len(cell.inner[t][r]) |->
                TextContent(cell.inner[t][r][c])])])])

(***************************************************************************)
(* Table Extractor: normalize_text and the body of the row loop.           *)
(***************************************************************************)
\* t.replace('\xa0', ' ')
ReplaceNbsp(s) == [j \in 1..Len(s) |-> IF s[j] = NBSP THEN " " ELSE s[j]]

\* length of the run of non-whitespace characters s starts with
RECURSIVE WordLen(_)
WordLen(s) == IF s = <<>> \/ s[1] \in Space THEN 0 ELSE 1 + WordLen(Tail(s))

\* t.split(): the maximal runs of non-whitespace characters
RECURSIVE Split(_)
Split(s) ==
    LET t == LStrip(s)
    IN  IF t = <<>>
        THEN <<>>
        ELSE <<SubSeq(t, 1, WordLen(t))>> \o Split(SubSeq(t, WordLen(t) + 1, Len(t)))

\* ' '.join(words)
RECURSIVE Join(_)
Join(words) ==
    IF words = <<>> THEN <<>>
    ELSE IF Len(words) = 1 THEN words[1]
    ELSE words[1] \o <<" ">> \o Join(Tail(words))

\* Python's None; it is no text
None == <<"None">>

\* faulty variant: the text is trimmed, its inner whitespace is kept
NormalizeTrimOnly(s) == IF s = None THEN <<>> ELSE Strip(ReplaceNbsp(Strip(s)))

\* normalize_text(s): '' for None, else strip, NBSP to blank, strip,
\* ' '.join(t.split())
normalize_text(s) ==
    IF s = None THEN <<>> ELSE Join(Split(Strip(ReplaceNbsp(Strip(s)))))

\* while len(cells) < 10: cells.append('')
RECURSIVE Pad(_)
Pad(cells) == IF Len(cells) < RowWidth THEN Pad(Append(cells, <<>>)) ELSE cells

\* row10 = cells[:10]
Row10(cells) == SubSeq(cells, 1, IF Len(cells) < RowWidth THEN Len(cells) ELSE RowWidth)

\* faulty variant: a row of exactly 2 cells has too few
TooFewOrTwo(cells) == Len(cells) <= MinCells

\* faulty variant: the check counts the cells with a text
TooFewTexts(cells) == Cardinality({j \in 1..Len(cells) : cells[j] # <<>>}) < MinCells

\* if len(cells) < 2
TooFew(cells) == Len(cells) < MinCells

\* faulty variant: the body without the test for header cells
TrBodyNoThTest(tr) ==
    LET tds == XPathCells(tr, "td")
        cells == [j \in 1..Len(tds) |-> normalize_text(TextContent(tds[j]))]
    IN  IF tds = <<>> THEN <<>>
        ELSE IF Len(cells) < MinCells THEN <<>>
        ELSE <<Row10(Pad(cells))>>

\* the body of `for tr in table.xpath('.//tr')`: the rows it appends to
\* rows_out, none when the row is skipped
TrBody(tr) ==
    LET ths == XPathCells(tr, "th")
        tds == XPathCells(tr, "td")
        cells == [j \in 1..Len(tds) |-> normalize_text(TextContent(tds[j]))]
    IN  IF ths # <<>> THEN <<>>
        ELSE IF tds = <<>> THEN <<>>
        ELSE IF TooFew(cells) THEN <<>>
        ELSE <<Row10(Pad(cells))>>

\* parse_tables(html_text) as a function of the page
parse_tables(doc) ==
    Concat([t \in 1..Len(TablesIn(doc)) |->
        Concat([r \in 1..Len(TrsIn(TablesIn(doc)[t])) |->
            TrBody(TrsIn(TablesIn(doc)[t])[r])])])

\* the header line write_csv writes
Header == <<"month", "day", "t1", "h1", "t2", "h2", "t3", "h3", "t4", "h4">>

(***************************************************************************)
(* Table Extractor: the pages.                                             *)
(***************************************************************************)
XMonth == <<"M", "o", "n", "t", "h">>
XDay == <<"D", "a", "y">>
XNote == <<"n", "o", "t", "e">>
\* texts with whitespace around and inside
XPadded03 == <<" ", "0", "3", "\n">>
XSplit15 == <<NBSP, "1", NBSP, " ", "5">>

TrNone == <<>>
TrOne == <<Td(D03)>>
TrTwo == <<Td(D03), Td(D15)>>
TrTen ==
    <<Td(D03), Td(D16), Td(T0531), Td(H12), Td(T1145), Td(H04),
      Td(T1758), Td(H15), Td(T2310), Td(H03)>>
TrEleven == TrTen \o <<Td(XNote)>>
TrHead == <<Th(XMonth), Th(XDay)>>
TrMixed == <<Th(XDay), Td(D02), Td(D30)>>
TrBlank == <<Td(Empty), Td(<<NBSP>>), Td(<<" ">>)>>
TrSpaced == <<Td(XPadded03), Td(XSplit15), Td(H13)>>
\* a data row with a table in its second cell
TrNested == <<Td(D03), TdNest(D15, << <<TrEleven>> >>), Td(H10)>>

\* a row of one data cell that holds a table
TrNestedOne == <<TdNest(D16, << <<TrTwo>> >>)>>
\* a data row with a table in its second cell that has a header row only
TrNestedHead == <<Td(D02), TdNest(D30, << <<TrHead>> >>)>>

TrRoster ==
    {TrNone, TrOne, TrTwo, TrTen, TrEleven, TrHead, TrMixed, TrBlank, TrSpaced,
     TrNested, TrNestedOne, TrNestedHead}

\* pages with one outermost table
OneTableDocs == {<<t>> : t \in SeqsUpTo(TrRoster, MaxTrs)}

\* pages with no table and with several tables
OtherDocs ==
    { <<>>,
      << <<TrHead, TrTwo>>, <<TrTen>> >>,
      << <<TrOne>>, <<>>, <<TrSpaced, TrNested>> >> }

Docs == OneTableDocs \cup OtherDocs

\* what urlopen(URL, timeout=20).read().decode('utf-8') can give: no page
\* (the site is not reached) or a page
Unreached == [ok |-> FALSE, doc |-> <<>>]
UrlOpen ==
    {Unreached}
    \cup {[ok |-> TRUE, doc |-> d] : d \in { <<>>, << <<TrHead, TrTen, TrTwo>> >> }}

MissingHtml == [exists |-> FALSE, doc |-> <<>>]
NoCsv == [exists |-> FALSE, header |-> <<>>, rows |-> <<>>]
\* a wide CSV left by an earlier run
OldCsv == [exists |-> TRUE, header |-> Header, rows |-> <<Row10(Pad(<<D02, D30>>))>>]

(***************************************************************************)
(* Table Extractor: the script.  An uncaught exception ends it (xpc        *)
(* "aborted"): Python prints the traceback and exits with status 1.        *)
(***************************************************************************)
MsgFetching == "Local HTML not found; fetching from"
MsgNoRows == "No table rows parsed"
MsgWrote == "Wrote"

\* the reshaper is not run
ReshaperIdle ==
    /\ csv_in = MissingInput
    /\ csv_out = NoFile
    /\ df = <<>>
    /\ pc = "idle"
    /\ k = 0
    /\ i = 1
    /\ month = 0
    /\ day = 0
    /\ rows = <<>>
    /\ long = <<>>
    /\ err = ""
    /\ sorted_as = NoSort

InitExtract ==
    /\ ReshaperIdle
    /\ FirstRun
    /\ NormalizeIdle
    /\ ReplyIdle
    /\ ChatIdle
    /\ local_html \in {MissingHtml} \cup {[exists |-> TRUE, doc |-> d] : d \in Docs}
    \* the site is looked at only when there is no saved page
    /\ url_page \in IF local_html.exists THEN {Unreached} ELSE UrlOpen
    /\ out_csv \in {NoCsv, OldCsv}
    /\ html_text = <<>>
    /\ tables = <<>>
    /\ trs = <<>>
    /\ ti = 0
    /\ tri = 0
    /\ rows_out = <<>>
    /\ stdout = <<>>
    /\ xpc = "start"
    /\ xerr = ""

\* faulty variant: a page that cannot be fetched is taken for a page
\* without tables
GetHtmlTextFetchQuiet ==
    /\ xpc = "start"
    /\ IF local_html.exists
       THEN /\ html_text' = local_html.doc
            /\ stdout' = stdout
       ELSE /\ stdout' = Append(stdout, MsgFetching)
            /\ html_text' = url_page.doc
    /\ xpc' = "parse"
    /\ UNCHANGED <<local_html, url_page, out_csv, tables, trs, ti, tri, rows_out, xerr>>
    /\ UNCHANGED others_x

\* html_text = get_html_text(): the saved page if there is one, else the
\* page fetched from URL; a fetch that fails raises URLError
GetHtmlText ==
    /\ xpc = "start"
    /\ IF local_html.exists
       THEN /\ html_text' = local_html.doc
            /\ xpc' = "parse"
            /\ UNCHANGED <<stdout, xerr>>
       ELSE /\ stdout' = Append(stdout, MsgFetching)
            /\ IF url_page.ok
               THEN /\ html_text' = url_page.doc
                    /\ xpc' = "parse"
                    /\ xerr' = xerr
               ELSE /\ html_text' = html_text
                    /\ xpc' = "aborted"
                    /\ xerr' = "URLError"
    /\ UNCHANGED <<local_html, url_page, out_csv, tables, trs, ti, tri, rows_out>>
    /\ UNCHANGED others_x

\* parse_tables: tree = html.fromstring(html_text); rows_out = [];
\* the list of tree.xpath('//table')
FromString ==
    /\ xpc = "parse"
    /\ tables' = TablesIn(html_text)
    /\ ti' = 0
    /\ rows_out' = <<>>
    /\ xpc' = "table"
    /\ UNCHANGED <<local_html, url_page, out_csv, html_text, trs, tri, stdout, xerr>>
    /\ UNCHANGED others_x

\* for table in tree.xpath('//table'): the list of table.xpath('.//tr');
\* return rows_out after the last table
NextTable ==
    /\ xpc = "table"
    /\ IF ti = Len(tables)
       THEN /\ xpc' = "main"
            /\ UNCHANGED <<ti, trs, tri>>
       ELSE /\ ti' = ti + 1
            /\ trs' = TrsIn(tables[ti + 1])
            /\ tri' = 0
            /\ xpc' = "tr"
    /\ UNCHANGED <<local_html, url_page, out_csv, html_text, tables, rows_out,
                   stdout, xerr>>
    /\ UNCHANGED others_x

\* one pass of for tr in table.xpath('.//tr')
NextTr ==
    /\ xpc = "tr"
    /\ IF tri = Len(trs)
       THEN /\ xpc' = "table"
            /\ UNCHANGED <<tri, rows_out>>
       ELSE /\ tri' = tri + 1
            /\ rows_out' = rows_out \o TrBody(trs[tri + 1])
            /\ xpc' = "tr"
    /\ UNCHANGED <<local_html, url_page, out_csv, html_text, tables, trs, ti, stdout,
                   xerr>>
    /\ UNCHANGED others_x

\* faulty variant: the file is written whatever was parsed
WriteAlways ==
    /\ xpc = "main"
    /\ out_csv' = [exists |-> TRUE, header |-> Header, rows |-> rows_out]
    /\ stdout' = Append(stdout, MsgWrote)
    /\ xpc' = "done"
    /\ UNCHANGED <<local_html, url_page, html_text, tables, trs, ti, tri, rows_out, xerr>>
    /\ UNCHANGED others_x

\* main() after parse_tables: if not rows: print, return; else
\* write_csv(rows) (header line, then one line per row) and print
WriteOrReport ==
    /\ xpc = "main"
    /\ IF rows_out = <<>>
       THEN /\ stdout' = Append(stdout, MsgNoRows)
            /\ out_csv' = out_csv
       ELSE /\ out_csv' = [exists |-> TRUE, header |-> Header, rows |-> rows_out]
            /\ stdout' = Append(stdout, MsgWrote)
    /\ xpc' = "done"
    /\ UNCHANGED <<local_html, url_page, html_text, tables, trs, ti, tri, rows_out, xerr>>
    /\ UNCHANGED others_x

NextExtract == GetHtmlText \/ FromString \/ NextTable \/ NextTr \/ WriteOrReport

SpecExtract == InitExtract /\ [][NextExtract]_vars

(***************************************************************************)
(* Vocabulary of the claims about the extractor.                           *)
(***************************************************************************)
\* the data cells and the header cells a row has itself
OwnTds(tr) == SelectSeq(tr, LAMBDA c : IsTag("td", c))
OwnThs(tr) == SelectSeq(tr, LAMBDA c : IsTag("th", c))

\* a row of header cells
HeaderRow(tr) == tr # <<>> /\ OwnTds(tr) = <<>>

\* a row without header cell, with at least 2 data cells
Qualifies(tr) == OwnThs(tr) = <<>> /\ Len(OwnTds(tr)) >= MinCells

\* a row of data cells only, none of which holds a table
PlainRow(tr) == OwnThs(tr) = <<>> /\ \A c \in 1..Len(tr) : tr[c].inner = <<>>

\* every row of a page, once, in document order
RowsOfDoc(doc) == Concat([t \in 1..Len(doc) |-> TrsIn(doc[t])])

\* the row the inner loop takes next
AtRow == xpc = "tr" /\ tri < Len(trs)

\* the rows the step appends to rows_out
NewRows == SubSeq(rows_out', Len(rows_out) + 1, Len(rows_out'))

\* parse_tables has returned
Parsed == xpc \in {"main", "done"}

\* C13: when parse_tables returned no rows, main prints the no-data
\* message and returns normally without calling write_csv: the wide CSV is
\* left as it was (not created, not truncated, not overwritten).
C13_NoRowsNoWrite ==
    [][ (xpc = "main" /\ rows_out = <<>>)
        => /\ xpc' = "done"
           /\ xerr' = ""
           /\ stdout' = Append(stdout, MsgNoRows)
           /\ out_csv' = out_csv ]_vars

C13_Witness ==
    /\ xpc = "done"
    /\ xerr = ""
    /\ html_text # <<>>
    /\ rows_out = <<>>
    /\ stdout = <<MsgNoRows>>
    /\ out_csv = OldCsv

\* C14: a page with exactly one table of N rows, each without header cell
\* and with at least 2 data cells, yields exactly N wide rows, N >= 0.
C14_OneTableNRows ==
    ( /\ Parsed
      /\ Len(TablesIn(html_text)) = 1
      /\ \A r \in 1..Len(html_text[1]) : Qualifies(html_text[1][r]) )
    => Len(rows_out) = Len(html_text[1])

C14_Witness ==
    /\ xpc = "done"
    /\ Len(TablesIn(html_text)) = 1
    /\ Len(html_text[1]) = MaxTrs
    /\ \A r \in 1..Len(html_text[1]) : Qualifies(html_text[1][r])
    /\ \E r \in 1..Len(html_text[1]) : Len(html_text[1][r]) = MinCells
    /\ Len(rows_out) = MaxTrs
    /\ out_csv.rows = rows_out

\* position of the n-th smallest member of a set of positions
NthOf(idx, n) == CHOOSE j \in idx : Cardinality({m \in idx : m <= j}) = n

\* the normalized form of a text: no whitespace at its ends, one blank for
\* each run of whitespace inside, every other character as it stands
Normalized(s) ==
    LET white(j) == s[j] \in Space
        kept == {j \in 1..Len(s) :
                    \/ ~white(j)
                    \/ /\ j > 1
                       /\ ~white(j - 1)
                       /\ \E m \in (j + 1)..Len(s) : ~white(m)}
    IN  [n \in 1..Cardinality(kept) |->
            IF white(NthOf(kept, n)) THEN " " ELSE s[NthOf(kept, n)]]

\* the wide row of a source row: the normalized texts of its data cells,
\* cut after the 10th, empty texts after the last
WideRowOf(tr) ==
    [j \in 1..RowWidth |->
        IF j <= Len(OwnTds(tr)) THEN Normalized(TextContent(OwnTds(tr)[j])) ELSE <<>>]

\* C15: every row parse_tables returns has exactly 10 fields: it comes
\* from a source row with k >= 2 data cells, field j is the normalized text
\* of data cell j as it stands (leading zeros kept) for j up to min(k, 10),
\* the fields after the k-th are empty and the cells after the 10th are
\* left out.
C15_TenFields ==
    [][ AtRow
        => \A n \in 1..Len(NewRows) :
              /\ Len(NewRows[n]) = RowWidth
              /\ Len(OwnTds(trs[tri + 1])) >= MinCells
              /\ NewRows[n] = WideRowOf(trs[tri + 1]) ]_vars

\* C16: parse_tables returns one wide row for every qualifying row of the
\* page, in document order, also when a table is nested in a cell of
\* another: no row is emitted twice, none out of order.
C16_OncePerRow ==
    Parsed
    => rows_out = Concat([n \in 1..Len(RowsOfDoc(html_text)) |->
                             TrBody(RowsOfDoc(html_text)[n])])

\* a sequence of sibling tables without the header rows in and below them
RECURSIVE WithoutHeaderRows(_)
WithoutHeaderRows(ts) ==
    [t \in 1..Len(ts) |->
        LET kept == SelectSeq(ts[t], LAMBDA tr : ~HeaderRow(tr))
        IN  [r \in 1..Len(kept) |->
                [c \in 1..Len(kept[r]) |->
                    [kept[r][c] EXCEPT !.inner = WithoutHeaderRows(@)]]]]

\* C17: parse_tables skips every header row (a row whose cells are th):
\* the rows it returns are the rows it returns for the page without its
\* header rows, so a header row gives no row and changes nothing for the
\* data rows before and after it.
C17_HeaderRowsSkipped ==
    Parsed => rows_out = parse_tables(WithoutHeaderRows(html_text))

\* C18: a table row with no data cell or with exactly one is skipped: it
\* gives no output row and the loop goes on with the next row.
C18_ShortRowSkipped ==
    [][ (AtRow /\ Len(OwnTds(trs[tri + 1])) < MinCells)
        => /\ rows_out' = rows_out
           /\ xpc' = "tr"
           /\ tri' = tri + 1
           /\ xerr' = "" ]_vars

\* C19 as stated: when the saved page is missing the extractor fails with
\* an error and the wide CSV is not written.
C19_MissingHtmlFails ==
    [][ (xpc = "start" /\ ~local_html.exists)
        => /\ xpc' = "aborted"
           /\ xerr' # ""
           /\ out_csv' = out_csv ]_vars

\* C19: when the saved page is missing and the page cannot be fetched from
\* URL either, the extractor fails with the error of the fetch and the
\* wide CSV is not written.
C19_MissingHtmlNoPageFails ==
    [][ (xpc = "start" /\ ~local_html.exists /\ ~url_page.ok)
        => /\ xpc' = "aborted"
           /\ xerr' = "URLError"
           /\ rows_out' = <<>>
           /\ out_csv' = out_csv ]_vars

C19_Witness ==
    /\ ~local_html.exists
    /\ ~url_page.ok
    /\ xpc = "aborted"
    /\ xerr = "URLError"
    /\ stdout = <<MsgFetching>>
    /\ out_csv = OldCsv

(***************************************************************************)
(* Further claims about the reshaper.                                      *)
(***************************************************************************)
\* an instant of the calendar of the fixed year
Constructible(dt) ==
    /\ dt.year = YEAR
    /\ dt.month \in 1..12
    /\ dt.day \in 1..DaysInMonth(dt.month)
    /\ dt.hour \in 0..23
    /\ dt.minute \in 0..59

\* C21: every Reading the reshaper collects and writes has a datetime of
\* the year 2023 whose month and day are the integer month and day of its
\* source row and whose hour (0..23) and minute (0..59) are the parsed
\* time of its slot; a Reading whose datetime cannot be constructed is
\* never collected, and only collected Readings are written.
C21_DatetimeConstructible ==
    [][ /\ (pc = "slot" /\ Len(rows') > Len(rows))
           => LET rd == rows'[Len(rows')]
              IN  /\ Constructible(rd.datetime)
                  /\ rd.datetime.month = PyInt(df[k].month).val
                  /\ rd.datetime.day = PyInt(df[k].day).val
                  /\ rd.datetime.hour = HourOf(df[k].t[i])
                  /\ rd.datetime.minute = MinuteOf(df[k].t[i])
        /\ csv_out' # csv_out
           => /\ Range(csv_out'.rows) = Range(rows)
              /\ \A n \in 1..Len(csv_out'.rows) :
                    Constructible(csv_out'.rows[n].datetime) ]_vars

C21_Witness ==
    /\ pc = "done"
    /\ Len(df) = 2
    /\ Len(csv_out.rows) >= 5
    /\ \E n \in 1..Len(csv_out.rows) :
          csv_out.rows[n].datetime = Timestamp(3, 15, 5, 31)

\* the number of valid (row, slot) positions of the frame
ValidPositions == ValidBefore(Len(df) + 1)

\* C22: no deduplication and no gap filling: when the run over a frame of
\* dated rows has ended, the output has as many Readings as the frame has
\* non-blank valid (row, slot) positions, each position has its Reading in
\* the output, and a row given twice gives its Readings twice.
C22_OneReadingPerPosition ==
    (Terminal /\ \A n \in 1..Len(df) : DateOk(df[n]))
    => /\ Len(Written) = ValidPositions
       /\ \A n \in 1..Len(df) : \A j \in ValidSlots(df[n]) :
             Expected(df[n], j) \in Range(Written)

(***************************************************************************)
(* normalize_text as a function: one call on an argument, then a call on   *)
(* what the first call returned.                                           *)
(***************************************************************************)
MaxLen == 4         \* longest argument text (characters)

\* the characters of the arguments: whitespace, a letter, a digit
NtChars == Space \cup {"a", "0"}

NtArgs == {None} \cup SeqsUpTo(NtChars, MaxLen)

InitNormalize ==
    /\ ReshaperIdle
    /\ FirstRun
    /\ ExtractorIdle
    /\ ReplyIdle
    /\ ChatIdle
    /\ nt_s \in NtArgs
    /\ nt_out = <<>>
    /\ nt_prev = <<>>
    /\ nt_pc = "call"

\* normalize_text(s)
NormalizeOnce ==
    /\ nt_pc = "call"
    /\ nt_out' = normalize_text(nt_s)
    /\ nt_pc' = "returned"
    /\ UNCHANGED <<nt_s, nt_prev>>
    /\ UNCHANGED others_n

\* normalize_text(normalize_text(s))
NormalizeAgain ==
    /\ nt_pc = "returned"
    /\ nt_prev' = nt_out
    /\ nt_out' = normalize_text(nt_out)
    /\ nt_pc' = "again"
    /\ UNCHANGED nt_s
    /\ UNCHANGED others_n

NextNormalize == NormalizeOnce \/ NormalizeAgain

SpecNormalize == InitNormalize /\ [][NextNormalize]_vars

\* C23: normalize_text returns a text without whitespace at its ends,
\* without no-break space and without two whitespace characters in a row,
\* every inner run of whitespace of the argument being one blank and every
\* other character kept; it returns the empty text for None; and applied
\* to its own result it returns that result.
C23_NormalizeText ==
    /\ nt_pc \in {"returned", "again"}
       => /\ nt_out = <<>> \/ (nt_out[1] \notin Space /\ nt_out[Len(nt_out)] \notin Space)
          /\ \A j \in 1..Len(nt_out) : nt_out[j] # NBSP
          /\ \A j \in 1..(Len(nt_out) - 1) :
                ~(nt_out[j] \in Space /\ nt_out[j + 1] \in Space)
          /\ \A j \in 1..Len(nt_out) : nt_out[j] \in Space => nt_out[j] = " "
    /\ (nt_pc = "returned" /\ nt_s # None) => nt_out = Normalized(nt_s)
    /\ (nt_pc = "returned" /\ nt_s = None) => nt_out = <<>>
    /\ nt_pc = "again" => nt_out = nt_prev

C23_Witness ==
    /\ nt_pc = "again"
    /\ Len(nt_s) = MaxLen
    /\ NBSP \in Range(nt_s)
    /\ \E j \in 2..(Len(nt_s) - 2) : nt_s[j] \in Space /\ nt_s[j + 1] \in Space
    /\ nt_out = <<"a", " ", "0">>

(***************************************************************************)
(* A stage run twice on the same input: when the first run of the          *)
(* reshaper or of the extractor is over, the script is started again with  *)
(* the files as the first run left them.                                   *)
(***************************************************************************)
\* the pages of the extractor run twice
TwiceDocs == OtherDocs \cup {<<t>> : t \in SeqsUpTo(TrRoster, MaxRows)}

InitTwice ==
    /\ FirstRun
    /\ NormalizeIdle
    /\ ReplyIdle
    /\ ChatIdle
    /\ \/ /\ ExtractorIdle
          /\ csv_in \in {MissingInput} \cup {[exists |-> TRUE, rows |-> w] : w \in WideInputs}
          /\ csv_out \in {NoFile, OldFile}
          /\ df = <<>>
          /\ pc = "start"
          /\ k = 0
          /\ i = 1
          /\ month = 0
          /\ day = 0
          /\ rows = <<>>
          /\ long = <<>>
          /\ err = ""
          /\ sorted_as = NoSort
       \/ /\ ReshaperIdle
          /\ local_html \in {MissingHtml} \cup {[exists |-> TRUE, doc |-> d] : d \in TwiceDocs}
          /\ url_page \in IF local_html.exists THEN {Unreached} ELSE UrlOpen
          /\ out_csv \in {NoCsv, OldCsv}
          /\ html_text = <<>>
          /\ tables = <<>>
          /\ trs = <<>>
          /\ ti = 0
          /\ tri = 0
          /\ rows_out = <<>>
          /\ stdout = <<>>
          /\ xpc = "start"
          /\ xerr = ""

\* python week02/reshape_and_plot.py, a second time
RunReshaperAgain ==
    /\ run = 1
    /\ pc \in {"done", "aborted"}
    /\ first' = [file |-> csv_out, rows |-> long, err |-> err]
    /\ run' = 2
    /\ pc' = "start"
    /\ df' = <<>>
    /\ k' = 0
    /\ i' = 1
    /\ month' = 0
    /\ day' = 0
    /\ rows' = <<>>
    /\ long' = <<>>
    /\ err' = ""
    /\ UNCHANGED <<csv_in, csv_out, sorted_as>>
    /\ UNCHANGED <<xvars, nvars, gvars, cvars>>

\* python week02/parse_hko_tables.py, a second time
RunExtractorAgain ==
    /\ run = 1
    /\ xpc \in {"done", "aborted"}
    /\ first' = [file |-> out_csv, rows |-> rows_out, err |-> xerr]
    /\ run' = 2
    /\ xpc' = "start"
    /\ html_text' = <<>>
    /\ tables' = <<>>
    /\ trs' = <<>>
    /\ ti' = 0
    /\ tri' = 0
    /\ rows_out' = <<>>
    /\ stdout' = <<>>
    /\ xerr' = ""
    /\ UNCHANGED <<local_html, url_page, out_csv>>
    /\ UNCHANGED <<rvars, nvars, gvars, cvars>>

NextTwice ==
    \/ ReadCsv \/ NextRow \/ Slot \/ Finish \/ RunReshaperAgain
    \/ GetHtmlText \/ FromString \/ NextTable \/ NextTr \/ WriteOrReport
    \/ RunExtractorAgain

SpecTwice == InitTwice /\ [][NextTwice]_vars

MaxFrags == 2       \* longest prompt of the calls of get_response (fragments)

KHello == <<"h", "e", "l", "l", "o">>
KHowAreYou == <<"h", "o", "w", " ", "a", "r", "e", " ", "y", "o", "u">>
KWeather == <<"w", "e", "a", "t", "h", "e", "r">>
KTime == <<"t", "i", "m", "e">>
KJoke == <<"j", "o", "k", "e">>
KBye == <<"b", "y", "e">>
KThanks == <<"t", "h", "a", "n", "k", "s">>
KHelp == <<"h", "e", "l", "p">>

\* the dict `responses`, in the order of its declaration
responses ==
    <<[keyword |-> KHello,
       replies |->
         <<"Hello! How can I help you today?",
           "Hi there! What's on your mind?",
           "Hey! Nice to meet you!">>],
      [keyword |-> KHowAreYou,
       replies |->
         <<"I'm doing great, thanks for asking!",
           "I'm good! How about you?",
           "Fantastic! Ready to chat!">>],
      [keyword |-> KWeather,
       replies |->
         <<"I can't check the weather, but I hope it's nice where you are!",
           "Weather is always better with good company!",
           "I don't have weather data, but every day is a good day to chat!">>],
      [keyword |-> KTime,
       replies |->
         <<"I don't have real-time data, but it's always time to chat!",
           "Time flies when you're having fun!",
           "Every moment is the right time for a conversation!">>],
      [keyword |-> KJoke,
       replies |->
         <<"Why don't scientists trust atoms? Because they make up everything!",
           "What do you call a bear with no teeth? A gummy bear!",
           "Why did the scarecrow win an award? He was outstanding in his field!",
           "What do you call a fake noodle? An impasta!">>],
      [keyword |-> KBye,
       replies |->
         <<"Goodbye! Have a great day!",
           "See you later!",
           "Bye! Come back anytime!">>],
      [keyword |-> KThanks,
       replies |->
         <<"You're welcome!",
           "Happy to help!",
           "Anytime!">>],
      [keyword |-> KHelp,
       replies |->
         <<"I'm a simple chatbot. Try asking me about the weather, time, jokes, or just say hello!",
           "I can chat about various topics. What would you like to know?">>]>>

\* the list default_responses
default_responses ==
    <<"That's interesting! Tell me more.",
      "I see! What else would you like to chat about?",
      "Hmm, I'm not sure about that, but I'm here to chat!",
      "That's a good point! What do you think about it?",
      "I'd love to learn more about what you're thinking!",
      "Interesting! Can you elaborate on that?",
      "I appreciate you sharing that with me!">>

UpperCase ==
    <<"A", "B", "C", "D", "E", "F", "G", "H", "I", "J", "K", "L", "M",
      "N", "O", "P", "Q", "R", "S", "T", "U", "V", "W", "X", "Y", "Z">>
LowerCase ==
    <<"a", "b", "c", "d", "e", "f", "g", "h", "i", "j", "k", "l", "m",
      "n", "o", "p", "q", "r", "s", "t", "u", "v", "w", "x", "y", "z">>

\* str.lower() on texts of ASCII letters, digits and blanks
LowerChar(c) ==
    IF \E j \in 1..Len(UpperCase) : UpperCase[j] = c
    THEN LowerCase[CHOOSE j \in 1..Len(UpperCase) : UpperCase[j] = c]
    ELSE c
Lower(s) == [j \in 1..Len(s) |-> LowerChar(s[j])]

\* keyword in user_input
Contains(s, w) == \E j \in 0..(Len(s) - Len(w)) : SubSeq(s, j + 1, j + Len(w)) = w

\* faulty variant: the loop returns at the last keyword found, not the first
RECURSIVE LastMatch(_, _)
LastMatch(u, n) ==
    IF n < 1 THEN Range(default_responses)
    ELSE IF Contains(u, responses[n].keyword) THEN Range(responses[n].replies)
    ELSE LastMatch(u, n - 1)
RepliesFromLast(u, n) == LastMatch(u, Len(responses))

\* for keyword, reply_list in responses.items(), from entry n on: the list
\* random.choice draws from
RECURSIVE RepliesFrom(_, _)
RepliesFrom(u, n) ==
    IF n > Len(responses) THEN Range(default_responses)
    ELSE IF Contains(u, responses[n].keyword) THEN Range(responses[n].replies)
    ELSE RepliesFrom(u, n + 1)

\* the replies get_response(user_input) can return
get_response(prompt) == RepliesFrom(Strip(Lower(prompt)), 1)

\* pieces of prompts
XHello == <<"H", "E", "L", "L", "O">>
XHi == <<"h", "i">>
XXyz == <<"x", "y", "z">>
Fragments ==
    {KHello, XHello, XHi, KHelp, KHowAreYou, KWeather, KTime, KJoke, KBye, KThanks,
     <<" ">>, XXyz}

\* the prompts: up to MaxFrags pieces in a row
Prompts == {Concat(q) : q \in SeqsUpTo(Fragments, MaxFrags)}

InitReply ==
    /\ ReshaperIdle
    /\ ExtractorIdle
    /\ NormalizeIdle
    /\ ChatIdle
    /\ FirstRun
    /\ user_input \in Prompts
    /\ reply = ""
    /\ gpc = "call"

\* response = get_response(prompt)
GetResponse ==
    /\ gpc = "call"
    /\ reply' \in get_response(user_input)
    /\ gpc' = "returned"
    /\ UNCHANGED user_input
    /\ UNCHANGED others_g

NextReply == GetResponse

SpecReply == InitReply /\ [][NextReply]_vars

\* the entries of the table whose keyword occurs in the lower-cased,
\* trimmed prompt
Occurring(prompt) ==
    {n \in 1..Len(responses) : Contains(Strip(Lower(prompt)), responses[n].keyword)}

\* the first of them in the order of the table
FirstOccurring(prompt) ==
    CHOOSE n \in Occurring(prompt) : \A m \in Occurring(prompt) : n <= m

\* the replies of the greeting entry
GreetingReplies == Range(responses[1].replies)

\* C25: for a prompt that is the greeting "hi" or the greeting "hello"
\* (the two the sidebar names), get_response returns a reply of the
\* greeting entry of the table, not a default reply.
C25_GreetingsAnswered ==
    (gpc = "returned" /\ Strip(Lower(user_input)) \in {XHi, KHello})
    => reply \in GreetingReplies

\* C30: get_response returns a reply of the first entry of the table, in
\* the order of its declaration, whose keyword occurs in the lower-cased,
\* trimmed prompt, and a default reply if and only if no keyword occurs;
\* a prompt with both "hello" and "help" gets a hello reply.
C30_FirstKeywordWins ==
    gpc = "returned"
    => /\ Occurring(user_input) # {}
          => reply \in Range(responses[FirstOccurring(user_input)].replies)
       /\ reply \in Range(default_responses) <=> Occurring(user_input) = {}
       /\ (Contains(Lower(user_input), KHello) /\ Contains(Lower(user_input), KHelp))
          => reply \in GreetingReplies

C30_Witness ==
    /\ gpc = "returned"
    /\ user_input = KHelp \o XHello
    /\ reply = responses[1].replies[2]

(***************************************************************************)
(* Further claims about the reshaper and the extractor.                    *)
(***************************************************************************)
\* C26: the long CSV is written once, after every row has been walked and
\* the Readings are sorted: a run that aborts on a row, for whatever
\* reason, leaves the file as it was before the run, and no partial
\* output is ever written.
C26_NoPartialOutput ==
    [][ /\ pc' = "aborted" => csv_out' = csv_out
        /\ csv_out' # csv_out
           => /\ pc = "sort"
              /\ pc' = "done"
              /\ k = Len(df)
              /\ Len(csv_out'.rows) = Len(rows)
              /\ csv_out'.rows = long' ]_vars

C26_Witness ==
    /\ pc = "aborted"
    /\ err = "ValueError"
    /\ k = 2
    /\ rows # <<>>
    /\ csv_out = OldFile

\* the row holds a header cell, among its own cells or below them
HasTh(tr) == \E c \in 1..Len(CellsIn(tr)) : CellsIn(tr)[c].tag = "th"

\* C27: a table row that contains a header cell is dropped whole, also
\* when it contains two or more data cells: the step that takes the row
\* appends nothing, so its data cells never get into the output.
C27_MixedRowDropped ==
    [][ (AtRow /\ HasTh(trs[tri + 1]))
        => /\ rows_out' = rows_out
           /\ xpc' = "tr"
           /\ tri' = tri + 1 ]_vars

C27_Witness ==
    /\ xpc = "done"
    /\ Len(html_text) = 1
    /\ html_text[1] = <<TrTwo, TrMixed, TrTen>>
    /\ Len(rows_out) = 2
    /\ out_csv.rows = rows_out

\* a wide row of empty texts
BlankWideRow == [j \in 1..RowWidth |-> <<>>]

\* the row has no header cell and two or more data cells, and the
\* normalized text of every data cell is empty
BlankDataRow(tr) ==
    /\ ~HasTh(tr)
    /\ Len(OwnTds(tr)) >= MinCells
    /\ \A c \in 1..Len(OwnTds(tr)) : Normalized(TextContent(OwnTds(tr)[c])) = <<>>

\* C28: the fewer-than-2 check counts data cells, not texts: a row of two
\* or more data cells whose normalized texts are all empty is not skipped,
\* it gives a wide row of 10 empty texts (blank month and day).
C28_BlankRowEmitted ==
    [][ (AtRow /\ BlankDataRow(trs[tri + 1])) => NewRows = <<BlankWideRow>> ]_vars

C28_Witness ==
    /\ xpc = "done"
    /\ Len(html_text) = 1
    /\ \E r \in 1..Len(html_text[1]) : html_text[1][r] = TrBlank
    /\ \E n \in 1..Len(out_csv.rows) : out_csv.rows[n] = BlankWideRow

(***************************************************************************)
(* Chatbot: the session.  Streamlit runs the script from the top at every  *)
(* event of the session (a prompt sent, a button clicked), with            *)
(* st.session_state kept from run to run.  An event that comes while a run *)
(* is under way stops that run at its next st call and starts the next     *)
(* run; the only stretch of the script that takes time is the typing loop  *)
(* (time.sleep, lines 78-81), entered after the user message is appended   *)
(* and left before the assistant message is.                               *)
(***************************************************************************)
MaxMsgs == 5        \* longest history (messages)

\* the assistant message the history starts with
Greeting ==
    [role |-> "assistant", content |-> "Hi there! I'm a simple chatbot. Ask me anything!"]

\* the prompts of the session
ChatPrompts == {KHello, XHi, KThanks \o <<" ">> \o KBye}

InitChat ==
    /\ ReshaperIdle
    /\ ExtractorIdle
    /\ NormalizeIdle
    /\ ReplyIdle
    /\ FirstRun
    /\ messages = <<Greeting>>
    /\ response = ""
    /\ cpc = "idle"

\* a run with a prompt, up to the typing loop: the user message is
\* appended, get_response draws the reply
Submit(p) ==
    /\ Len(messages) + 2 <= MaxMsgs
    /\ messages' = Append(messages, [role |-> "user", content |-> p])
    /\ response' \in get_response(p)
    /\ cpc' = "typing"
    /\ UNCHANGED others_c

\* if prompt := st.chat_input(...), sent while no run is under way
Prompt ==
    /\ cpc = "idle"
    /\ \E p \in ChatPrompts : Submit(p)

\* a prompt sent while the reply of the last one is typed out: the run
\* under way is stopped in the typing loop, the next run takes the prompt
PromptWhileTyping ==
    /\ cpc = "typing"
    /\ \E p \in ChatPrompts : Submit(p)

\* the typing loop ends; the assistant message is appended and the run
\* goes to the end of the script
TypeOut ==
    /\ cpc = "typing"
    /\ messages' = Append(messages, [role |-> "assistant", content |-> response])
    /\ response' = ""
    /\ cpc' = "idle"
    /\ UNCHANGED others_c

\* if st.button("Clear Chat History"): the history is set to the greeting
\* and st.rerun() starts the script again (a click stops a run under way)
ClearChat ==
    /\ messages' = <<Greeting>>
    /\ response' = ""
    /\ cpc' = "idle"
    /\ UNCHANGED others_c

NextChat == Prompt \/ PromptWhileTyping \/ TypeOut \/ ClearChat

SpecChat == InitChat /\ [][NextChat]_vars

\* the role of the message at position n of a well-formed history
RoleAt(n) == IF n % 2 = 1 THEN "assistant" ELSE "user"

\* C29: whenever the script has run to its end, the history starts with
\* the greeting, has odd length and alternates assistant and user (a
\* prompt has added one user message and then one assistant message), and
\* right after a Clear Chat History click the history is the greeting
\* alone.
C29_HistoryAlternates ==
    [][ /\ cpc' = "idle"
           => /\ messages'[1] = Greeting
              /\ Len(messages') % 2 = 1
              /\ \A n \in 1..Len(messages') : messages'[n].role = RoleAt(n)
        /\ ClearChat => messages' = <<Greeting>> ]_vars


====
